---- MODULE Spec2Model ----
(***************************************************************************)
(* HashMap<KeyT, ValueT> of cpp_ex2/Fractal.h (the HashMap.hpp part of the *)
(* file): a bucket array of vectors of pairs, a load-factor driven resize  *)
(* and a forward const_iterator.                                           *)
(*                                                                         *)
(* A table is a record [nElements, capacity, hashTable]; hashTable is the  *)
(* heap array of buckets, bucket i of the code at position i + 1, and a    *)
(* bucket is the vector of its pairs <<first, second>> in vector order.    *)
(***************************************************************************)
EXTENDS Integers, Sequences, FiniteSets, TLC

\* ------------------------------ bounds ---------------------------------
\* keys are 0 .. NumKeys - 1 and values 0 .. NumValues - 1
NumKeys == 3
NumValues == 2
\* number of keys of the two-table specification
NumPairKeys == 1
\* number of keys of the insert-only specification
NumFillKeys == 14
\* the longest key or value vector of the free bulk constructions
MaxBulkLen == 3
\* the bucket arrays the free store has room for
NumAddrs == 3
\* the keys 0 .. NumOrderKeys - 1 of the client that numbers its inserts,
\* and the highest number it gives
NumSymKeys == 2
NumOrderKeys == 2
MaxStamp == 4

\* -------------------------- const definitions --------------------------
\* LOWER_LOAD_FACTOR 1.0/4 and UPPER_LOAD_FACTOR 3.0/4, as exact fractions
LOWER_LOAD_FACTOR_NUM == 1
UPPER_LOAD_FACTOR_NUM == 3
LOAD_FACTOR_DEN == 4
INIT_CAPACITY == 16
MIN_CAPACITY == 1
TABLE_SIZE_FACTOR == 2
NO_ELEMS == 0

Keys == 0 .. (NumKeys - 1)
PairKeys == 0 .. (NumPairKeys - 1)
FillKeys == 0 .. (NumFillKeys - 1)
Values == 0 .. (NumValues - 1)
Tables == {"a", "b"}

\* ValueT(): the value-initialised ValueT (int score of the SpamDetector)
DefaultValue == 0

\* std::hash<KeyT>()(key): a fixed function of the key.  Keys 2i and 2i+1
\* differ only in bit 4, so they share a bucket up to capacity 16 and part
\* at capacity 32; keys of different pairs meet in the small capacities.
Hash(key) == 1 + 16 * (key % 2) + (key \div 2)

\* the & of unsigned integers
RECURSIVE BitAnd(_, _)
BitAnd(x, y) ==
    IF x = 0 \/ y = 0 THEN 0
    ELSE (IF x % 2 = 1 /\ y % 2 = 1 THEN 1 ELSE 0)
         + 2 * BitAnd(x \div 2, y \div 2)

\* ------------------------------ queries --------------------------------
size(m) == m.nElements
capacity(m) == m.capacity
empty(m) == m.nElements = 0

\* _hash: std::hash<KeyT>()(key) & (capacity() - 1)
_hash(m, key) == BitAnd(Hash(key), capacity(m) - 1)

\* _hashTable[i]
BucketAt(m, i) == m.hashTable[i + 1]

\* what _getPairByKey throws std::out_of_range for
KeyNotFound == -1

\* _getPairByKey: idxInBucket of the first pair of the routed bucket whose
\* first is key, KeyNotFound for the throw
RECURSIVE ScanBucket(_, _, _)
ScanBucket(b, key, i) ==
    IF i >= Len(b) THEN KeyNotFound
    ELSE IF b[i + 1][1] = key THEN i
    ELSE ScanBucket(b, key, i + 1)

_getPairByKey(m, key) == ScanBucket(BucketAt(m, _hash(m, key)), key, 0)

containsKey(m, key) == _getPairByKey(m, key) # KeyNotFound

\* a lookup that takes the first pair of the routed bucket
at_FirstOfBucket(m, key) == BucketAt(m, _hash(m, key))[1][2]

\* at(key) when it does not throw: elem.second of the pair found
at(m, key) == BucketAt(m, _hash(m, key))[_getPairByKey(m, key) + 1][2]

\* getLoadFactor() > UPPER_LOAD_FACTOR and getLoadFactor() < LOWER_LOAD_FACTOR:
\* size() / (double) capacity() against 3.0/4 and 1.0/4, exact in double
\* a growth test against a full table instead of UPPER_LOAD_FACTOR
LoadFactorAboveUpper_Full(m) == size(m) > capacity(m)
\* a growth test with >= in place of >
LoadFactorAboveUpper_AtLeast(m) ==
    size(m) * LOAD_FACTOR_DEN >= UPPER_LOAD_FACTOR_NUM * capacity(m)
LoadFactorAboveUpper(m) ==
    size(m) * LOAD_FACTOR_DEN > UPPER_LOAD_FACTOR_NUM * capacity(m)
\* a shrink test with <= in place of <
LoadFactorBelowLower_AtMost(m) ==
    size(m) * LOAD_FACTOR_DEN <= LOWER_LOAD_FACTOR_NUM * capacity(m)
LoadFactorBelowLower(m) ==
    size(m) * LOAD_FACTOR_DEN < LOWER_LOAD_FACTOR_NUM * capacity(m)

\* the arguments of _resizeTable in insert and in erase
\* a growth by TABLE_SIZE_FACTOR more buckets instead of TABLE_SIZE_FACTOR times
GrownCapacity_Added(m) == capacity(m) + TABLE_SIZE_FACTOR
GrownCapacity(m) == capacity(m) * TABLE_SIZE_FACTOR
ShrunkCapacity(m) == capacity(m) \div TABLE_SIZE_FACTOR

\* HashMap(const int capacity): no elements, capacity empty buckets
NewMap(cap) ==
    [nElements |-> NO_ELEMS, capacity |-> cap,
     hashTable |-> [i \in 1 .. cap |-> << >>]]

\* ---------------------------- const_iterator ---------------------------
\* An iterator is [currBucket, pairPtr]; pairPtr, a vector iterator, is the
\* pair <<bucket, position>>: position Len(bucket) is that bucket's cend().
_setEnd(m) ==
    [currBucket |-> capacity(m) - 1,
     pairPtr |-> <<capacity(m) - 1, Len(BucketAt(m, capacity(m) - 1))>>]

\* _nextBucket, with i the value of ++_currBucket
RECURSIVE NextBucketFrom(_, _)
NextBucketFrom(m, i) ==
    IF i >= capacity(m) THEN _setEnd(m)
    ELSE IF BucketAt(m, i) # << >>
         THEN [currBucket |-> i, pairPtr |-> <<i, 0>>]
         ELSE NextBucketFrom(m, i + 1)

\* a second increment of _currBucket on the way into the loop
_nextBucket_SkipOne(m, it) == NextBucketFrom(m, it.currBucket + 2)
_nextBucket(m, it) == NextBucketFrom(m, it.currBucket + 1)

\* _nextPair: ++_pairPtr, and on the bucket's cend() the next bucket
_nextPair(m, it) ==
    IF it.pairPtr[2] + 1 = Len(BucketAt(m, it.pairPtr[1]))
    THEN _nextBucket(m, it)
    ELSE [it EXCEPT !.pairPtr = <<it.pairPtr[1], it.pairPtr[2] + 1>>]

\* const_iterator(map, startFromBucket): _currBucket(startFromBucket - 1),
\* then _nextBucket() on a map that is not empty and _setEnd() otherwise
const_iterator(m, startFromBucket) ==
    IF ~empty(m)
    THEN _nextBucket(m, [currBucket |-> startFromBucket - 1, pairPtr |-> << >>])
    ELSE _setEnd(m)

cbegin(m) == const_iterator(m, 0)
cend(m) == const_iterator(m, capacity(m))

\* const_iterator::operator==: _pairPtr == other._pairPtr.  The traversal
\* compares a pointer to a stored pair with the cend() of the last bucket;
\* these are equal only as the same position of the same vector.
\* a comparison of the buckets the iterators are in
IterEq_SameBucket(it1, it2) == it1.currBucket = it2.currBucket
IterEq(it1, it2) == it1.pairPtr = it2.pairPtr

\* the iterator after n times operator++
RECURSIVE Advance(_, _, _)
Advance(m, it, n) ==
    IF n = 0 THEN it ELSE Advance(m, _nextPair(m, it), n - 1)

\* operator*: the pair _pairPtr points to
Deref(m, it) == BucketAt(m, it.pairPtr[1])[it.pairPtr[2] + 1]

\* for (it = cbegin(); it != cend(); ++it): the pairs visited, in order.
\* fuel bounds the loop: a traversal that has not met cend() after fuel
\* increments is cut there.
RECURSIVE TraverseFrom(_, _, _)
TraverseFrom(m, it, fuel) ==
    IF IterEq(it, cend(m)) \/ fuel = 0 THEN << >>
    ELSE <<Deref(m, it)>> \o TraverseFrom(m, _nextPair(m, it), fuel - 1)

\* more increments than any table of the model has entries
TraverseFuel(m) == size(m) + capacity(m) + 1

Traverse(m) == TraverseFrom(m, cbegin(m), TraverseFuel(m))

\* ------------------------------ mutators -------------------------------
\* the store through the reference _getPairByKey(key).elem.second
SetSecond(m, key, value) ==
    [m EXCEPT !.hashTable[_hash(m, key) + 1][_getPairByKey(m, key) + 1][2] = value]

\* an insert at the front of the bucket
PushBack_Front(m, key, value) ==
    [m EXCEPT !.nElements = @ + 1,
              !.hashTable[_hash(m, key) + 1] = <<<<key, value>>>> \o @]

\* _hashTable[_hash(key)].push_back({key, value}) after _nElements++
PushBack(m, key, value) ==
    [m EXCEPT !.nElements = @ + 1,
              !.hashTable[_hash(m, key) + 1] = Append(@, <<key, value>>)]

RECURSIVE insert(_, _, _)
RECURSIVE _resizeTable(_, _)
RECURSIVE Rehash(_, _, _)

\* a loop that stops one pair early
Rehash_SkipLast(resized, pairs, i) ==
    IF i >= Len(pairs) THEN resized
    ELSE Rehash(insert(resized, pairs[i][1], pairs[i][2]).map, pairs, i + 1)

\* the loop of _resizeTable: resized.insert(it->first, it->second) for the
\* pairs the traversal of *this yields.  The source loops; each round here
\* reads size(resized) first, so that the table of one round is evaluated
\* before the next round begins and the evaluation does not nest.
Rehash(resized, pairs, i) ==
    IF i > Len(pairs) \/ size(resized) < NO_ELEMS THEN resized
    ELSE Rehash(insert(resized, pairs[i][1], pairs[i][2]).map, pairs, i + 1)

\* a resize that moves bucket i to bucket i of the new array, no rehash
_resizeTable_NoRehash(m, newSize) ==
    IF size(m) <= newSize /\ newSize >= MIN_CAPACITY
    THEN [nElements |-> size(m), capacity |-> newSize,
          hashTable |-> [i \in 1 .. newSize |->
                            IF i <= capacity(m) THEN m.hashTable[i] ELSE << >>]]
    ELSE m

\* a resize that leaves the first pair of the traversal behind
_resizeTable_SkipFirst(m, newSize) ==
    IF size(m) <= newSize /\ newSize >= MIN_CAPACITY
    THEN Rehash(NewMap(newSize), Traverse(m), 2)
    ELSE m

\* _resizeTable: *this = std::move(resized) leaves *this with the members
\* of resized
_resizeTable(m, newSize) ==
    IF size(m) <= newSize /\ newSize >= MIN_CAPACITY
    THEN Rehash(NewMap(newSize), Traverse(m), 1)
    ELSE m

\* an insert that overwrites the value of a key it finds
insert_Overwrite(m, key, value) ==
    IF containsKey(m, key) THEN [map |-> SetSecond(m, key, value), ret |-> FALSE]
    ELSE LET pushed == PushBack(m, key, value)
         IN  [map |-> IF LoadFactorAboveUpper(pushed)
                      THEN _resizeTable(pushed, GrownCapacity(pushed))
                      ELSE pushed,
              ret |-> TRUE]

\* insert: the table after the call and the value returned
insert(m, key, value) ==
    IF containsKey(m, key) THEN [map |-> m, ret |-> FALSE]
    ELSE LET pushed == PushBack(m, key, value)
         IN  [map |-> IF LoadFactorAboveUpper(pushed)
                      THEN _resizeTable(pushed, GrownCapacity(pushed))
                      ELSE pushed,
              ret |-> TRUE]

\* a removal of the last pair of the bucket, whatever idx is
RemoveAt_PopBack(b, idx) == SubSeq(b, 1, Len(b) - 1)

\* vector::erase(begin() + idx)
RemoveAt(b, idx) == [j \in 1 .. (Len(b) - 1) |-> IF j <= idx THEN b[j] ELSE b[j + 1]]

\* erase: the table after the call and the value returned
erase(m, key) ==
    IF _getPairByKey(m, key) = KeyNotFound THEN [map |-> m, ret |-> FALSE]
    ELSE LET removed ==
                 [m EXCEPT !.nElements = @ - 1,
                           !.hashTable[_hash(m, key) + 1] =
                               RemoveAt(@, _getPairByKey(m, key))]
         IN  [map |-> IF LoadFactorBelowLower(removed)
                      THEN _resizeTable(removed, ShrunkCapacity(removed))
                      ELSE removed,
              ret |-> TRUE]

\* a clear that falls back to a fresh table of the initial capacity
clear_Reset(m) == NewMap(INIT_CAPACITY)

\* clear
clear(m) ==
    [m EXCEPT !.nElements = NO_ELEMS,
              !.hashTable = [i \in 1 .. capacity(m) |-> << >>]]

\* an operator[] that adds a default pair without looking the key up
Subscript_AlwaysAdds(m, key) == PushBack(m, key, DefaultValue)

\* mutable operator[]: the table after the call (the reference returned is
\* the second of key's pair in that table)
Subscript(m, key) ==
    IF containsKey(m, key) THEN m
    ELSE insert(m, key, DefaultValue).map

\* HashMap(const HashMap &other): the members and every bucket copied
CopyOf(other) ==
    [nElements |-> size(other), capacity |-> capacity(other),
     hashTable |-> [i \in 1 .. capacity(other) |-> BucketAt(other, i - 1)]]

\* an operator== that compares the two bucket arrays slot by slot
Equals_BucketWise(this, other) ==
    size(this) = size(other) /\ this.hashTable = other.hashTable

\* the loop of operator==: false at the first pair of other whose key *this
\* lacks (the caught out_of_range) or maps to another value, true at the end
RECURSIVE EqualsLoop(_, _, _)
EqualsLoop(this, pairs, i) ==
    IF i > Len(pairs) THEN TRUE
    ELSE IF _getPairByKey(this, pairs[i][1]) = KeyNotFound THEN FALSE
    ELSE IF at(this, pairs[i][1]) # pairs[i][2] THEN FALSE
    ELSE EqualsLoop(this, pairs, i + 1)

\* an operator== that does not compare the sizes
Equals_NoSizeTest(this, other) == EqualsLoop(this, Traverse(other), 1)

\* operator==
Equals(this, other) ==
    IF size(this) = size(other)
    THEN EqualsLoop(this, Traverse(other), 1)
    ELSE FALSE

\* a bulk loop that inserts, so that the first value of a key stays
RECURSIVE BulkLoop_Insert(_, _, _, _)
BulkLoop_Insert(m, keys, values, i) ==
    IF i > Len(keys) \/ size(m) < NO_ELEMS THEN m
    ELSE BulkLoop_Insert(insert(m, keys[i], values[i]).map, keys, values, i + 1)

\* the loop of the bulk constructor: (*this)[keys[i]] = values[i], from i
\* on; size(m) is read first for the same reason as in Rehash
RECURSIVE BulkLoop(_, _, _, _)
BulkLoop(m, keys, values, i) ==
    IF i > Len(keys) \/ size(m) < NO_ELEMS THEN m
    ELSE BulkLoop(SetSecond(Subscript(m, keys[i]), keys[i], values[i]),
                  keys, values, i + 1)

\* a bulk constructor that stores the pairs both vectors have, then tests
\* the lengths
BulkCtor_TestAfterLoop(keys, values) ==
    LET n == IF Len(keys) < Len(values) THEN Len(keys) ELSE Len(values)
        m == BulkLoop(NewMap(INIT_CAPACITY), SubSeq(keys, 1, n),
                      SubSeq(values, 1, n), 1)
    IN  [map |-> m, threw |-> Len(keys) # Len(values)]

\* HashMap(keys, values): the table the constructor body ends with, and
\* whether it ended by throwing std::invalid_argument
BulkCtor(keys, values) ==
    IF Len(keys) # Len(values)
    THEN [map |-> NewMap(INIT_CAPACITY), threw |-> TRUE]
    ELSE [map |-> BulkLoop(NewMap(INIT_CAPACITY), keys, values, 1),
          threw |-> FALSE]

\* the place of a table that is not constructed: no table has capacity 0
NoTable == [nElements |-> NO_ELEMS, capacity |-> 0, hashTable |-> << >>]

\* ------------------------ objects and free store -----------------------
\* An object is the three members of a HashMap, _hashTable an address of
\* the free store or nullptr; the free store maps an address to the bucket
\* array new Bucket[] put there, or to Freed after delete[].
Addrs == 1 .. NumAddrs
nullptr == 0
Freed == << >>

\* the table the member functions of object o work on
View(o, h) ==
    [nElements |-> o.nElements, capacity |-> o.capacity,
     hashTable |-> IF o.hashTable = nullptr THEN Freed ELSE h[o.hashTable]]

\* new Bucket[]: the lowest free address
HasFree(h) == \E a \in Addrs : h[a] = Freed
Alloc(h) == CHOOSE a \in Addrs : h[a] = Freed /\ \A b \in 1 .. (a - 1) : h[b] # Freed

\* ~HashMap(): delete[] _hashTable, nothing for nullptr
Destroy(o, h) ==
    IF o.hashTable = nullptr THEN h ELSE [h EXCEPT ![o.hashTable] = Freed]

\* a copy constructor that copies the pointer instead of the buckets
CopyConstruct_Shallow(other, h) == [obj |-> other, heap |-> h]

\* HashMap(const HashMap &other): a new array, every bucket copied into it
CopyConstruct(other, h) ==
    [obj |-> [nElements |-> other.nElements, capacity |-> other.capacity,
              hashTable |-> Alloc(h)],
     heap |-> [h EXCEPT ![Alloc(h)] = CopyOf(View(other, h)).hashTable]]

\* a move constructor that leaves other its pointer
MoveConstruct_KeepPointer(other, h) ==
    [obj |-> [nElements |-> other.nElements, capacity |-> other.capacity,
              hashTable |-> other.hashTable],
     source |-> other,
     heap |-> h]

\* HashMap(HashMap &&other): the pointer is taken and other's set to nullptr;
\* _nElements and _capacity are read from other, which keeps them
MoveConstruct(other, h) ==
    [obj |-> [nElements |-> other.nElements, capacity |-> other.capacity,
              hashTable |-> other.hashTable],
     source |-> [other EXCEPT !.hashTable = nullptr],
     heap |-> h]

\* object o after a member function has left its table as m.  Without a
\* resize the buckets change in place; _resizeTable builds the table in a
\* new array while the old one is live, and *this = std::move(resized)
\* swaps the members into an object that dies with the old array
Written(o, h, m) ==
    IF capacity(m) = o.capacity
    THEN [obj |-> [o EXCEPT !.nElements = size(m)],
          heap |-> [h EXCEPT ![o.hashTable] = m.hashTable]]
    ELSE [obj |-> [nElements |-> size(m), capacity |-> capacity(m),
                   hashTable |-> Alloc(h)],
          heap |-> Destroy(o, [h EXCEPT ![Alloc(h)] = m.hashTable])]

\* an object whose lifetime has ended or has not begun
NoObject == [nElements |-> NO_ELEMS, capacity |-> 0, hashTable |-> nullptr]

\* HashMap(): HashMap(INIT_CAPACITY) with new Bucket[_capacity]
DefaultConstruct(h) ==
    [obj |-> [nElements |-> NO_ELEMS, capacity |-> INIT_CAPACITY, hashTable |-> Alloc(h)],
     heap |-> [h EXCEPT ![Alloc(h)] = NewMap(INIT_CAPACITY).hashTable]]

\* What a call does to the free store, in the order of the source: new
\* Bucket[] at addr, a loop reading the array at addr, delete[] addr.  held
\* is the set of arrays the objects of the caller point to at that moment;
\* the temporaries of the call (resized, the parameter other) are not in it.
Held(os) == {os[t].hashTable : t \in Tables} \ {nullptr}
MemEvent(ev, addr, held) == [ev |-> ev, addr |-> addr, held |-> held]

\* _resizeTable of object t: HashMap resized(newSize); the loop reads the
\* array of *this; operator= move-constructs other from resized and swaps,
\* so *this points to the new array; other dies with the old array, then
\* resized dies with nullptr
ResizeEvents(os, t, h) ==
    LET after == [os EXCEPT ![t].hashTable = Alloc(h)]
    IN  <<MemEvent("new", Alloc(h), Held(os)),
          MemEvent("read", os[t].hashTable, Held(os)),
          MemEvent("delete", os[t].hashTable, Held(after)),
          MemEvent("delete", nullptr, Held(after))>>

\* a member function that leaves the table of object t as m
WrittenEvents(os, t, h, m) ==
    IF capacity(m) = os[t].capacity THEN << >> ELSE ResizeEvents(os, t, h)

\* t = s: the parameter other is copy-constructed from s, swapped with
\* *this, and dies with the array t had
CopyAssignEvents(os, t, src, h) ==
    LET after == [os EXCEPT ![t] = CopyConstruct(os[src], h).obj]
    IN  <<MemEvent("new", Alloc(h), Held(os)),
          MemEvent("read", os[src].hashTable, Held(os)),
          MemEvent("delete", os[t].hashTable, Held(after))>>

\* t = std::move(s): other is move-constructed from s
MoveAssignEvents(os, t, src, h) ==
    LET after == [os EXCEPT ![t] = MoveConstruct(os[src], h).obj,
                            ![src] = MoveConstruct(os[src], h).source]
    IN  <<MemEvent("delete", os[t].hashTable, Held(after))>>

\* the end of the lifetime of t
DestroyEvents(os, t) ==
    <<MemEvent("delete", os[t].hashTable, Held([os EXCEPT ![t] = NoObject]))>>

\* HashMap t; and HashMap t(s);
DefaultConstructEvents(os, h) == <<MemEvent("new", Alloc(h), Held(os))>>
CopyConstructEvents(os, src, h) ==
    <<MemEvent("new", Alloc(h), Held(os)),
      MemEvent("read", os[src].hashTable, Held(os))>>

\* ------------------------- outcomes of a query -------------------------
\* how a call ends: it returns a value, throws std::out_of_range, or the
\* process dies on an access outside every object
Returns(value) == [how |-> "returned", value |-> value]
Throws == [how |-> "threw", value |-> 0]
Crashes == [how |-> "crashed", value |-> 0]

\* const at(key): _getPairByKey throws when the scan of the bucket ends
AtOutcome(m, key) ==
    IF _getPairByKey(m, key) = KeyNotFound THEN Throws
    ELSE Returns(at(m, key))

\* containsKey(key): the out_of_range of _getPairByKey is caught
ContainsKeyOutcome(m, key) == Returns(containsKey(m, key))

\* a bucketIndex that hashes without looking the key up
bucketIndex_NoLookup(m, key) == Returns(_hash(m, key))

\* bucketIndex(key)
bucketIndex(m, key) ==
    IF ~containsKey(m, key) THEN Throws
    ELSE Returns(_hash(m, key))

\* a bucketSize that counts the entries of the whole table
bucketSize_WholeTable(m, key) ==
    IF bucketIndex(m, key).how = "threw" THEN Throws
    ELSE Returns(size(m))

\* bucketSize(key): _hashTable[bucketIndex(key)].size()
bucketSize(m, key) ==
    IF bucketIndex(m, key).how = "threw" THEN Throws
    ELSE Returns(Len(BucketAt(m, bucketIndex(m, key).value)))

\* const operator[](key): the outcomes the call can have.  With key absent
\* it returns cbegin()->second; on an empty table cbegin() is the end() of
\* the last bucket, and reading through it is undefined: the read yields
\* whatever lies there or the process dies
ConstSubscriptOutcomes(m, key) ==
    IF _getPairByKey(m, key) # KeyNotFound THEN {Returns(at(m, key))}
    ELSE IF ~IterEq(cbegin(m), cend(m)) THEN {Returns(Deref(m, cbegin(m))[2])}
    ELSE {Crashes} \cup {Returns(value) : value \in Values}

\* ------------------------------- state ---------------------------------
VARIABLES
    maps,   \* maps[t]: the table object t
    last,   \* the public call that returned last: which, on what, its result
    filled, \* the keys the insert-only client has passed to insert
    objs,   \* objs[t]: the members of object t, _hashTable an address
    heap    \* heap[a]: the bucket array at address a of the free store

vars == <<maps, last, filled, objs, heap>>

\* The specifications of one table's contents identify _hashTable with the
\* array it points to and leave objs and heap alone; the specification of
\* ownership works on objs and heap, and maps[t] is View(objs[t], heap).
own == <<objs, heap>>

\* default-constructed "a" and "b" in the free store
InitOwn ==
    /\ objs = [t \in Tables |->
                 [nElements |-> NO_ELEMS, capacity |-> INIT_CAPACITY,
                  hashTable |-> IF t = "a" THEN 1 ELSE 2]]
    /\ heap = [a \in Addrs |-> IF a <= 2 THEN NewMap(INIT_CAPACITY).hashTable ELSE Freed]

\* ret is the bool returned; TRUE for a call that returns no bool and does
\* not throw, FALSE for one that throws
Call(op, t, key, ret) == [op |-> op, tbl |-> t, key |-> key, ret |-> ret]
NoCall == Call("none", "a", 0, TRUE)

\* HashMap(): both tables default-constructed
Init ==
    /\ maps = [t \in Tables |-> NewMap(INIT_CAPACITY)]
    /\ last = NoCall
    /\ filled = {}
    /\ InitOwn

\* t.insert(key, value)
Insert(t, key, value) ==
    /\ maps' = [maps EXCEPT ![t] = insert(maps[t], key, value).map]
    /\ last' = Call("insert", t, key, insert(maps[t], key, value).ret)
    /\ UNCHANGED <<filled, own>>

\* t.erase(key)
Erase(t, key) ==
    /\ maps' = [maps EXCEPT ![t] = erase(maps[t], key).map]
    /\ last' = Call("erase", t, key, erase(maps[t], key).ret)
    /\ UNCHANGED <<filled, own>>

\* t.clear()
Clear(t) ==
    /\ maps' = [maps EXCEPT ![t] = clear(maps[t])]
    /\ last' = Call("clear", t, 0, TRUE)
    /\ UNCHANGED <<filled, own>>

\* t[key] = value
SubscriptAssign(t, key, value) ==
    /\ maps' = [maps EXCEPT ![t] = SetSecond(Subscript(maps[t], key), key, value)]
    /\ last' = Call("subscript", t, key, TRUE)
    /\ UNCHANGED <<filled, own>>

\* t.at(key) = value; at() throws std::out_of_range when key is absent
AtAssign(t, key, value) ==
    /\ maps' = [maps EXCEPT ![t] = IF containsKey(maps[t], key)
                                   THEN SetSecond(maps[t], key, value)
                                   ELSE maps[t]]
    /\ last' = Call("at", t, key, containsKey(maps[t], key))
    /\ UNCHANGED <<filled, own>>

\* t = s: operator=(HashMap other) with other copy-constructed from s, then
\* _swap(*this, other); the former members of t die with other
CopyAssign(t, s) ==
    /\ maps' = [maps EXCEPT ![t] = CopyOf(maps[s])]
    /\ last' = Call("assign", t, 0, TRUE)
    /\ UNCHANGED <<filled, own>>

\* t == s, for two different tables
Compare(t, s) ==
    /\ t # s
    /\ last' = Call("equals", t, 0, Equals(maps[t], maps[s]))
    /\ UNCHANGED <<maps, filled, own>>

\* one table, "a", and every operation on it
Next ==
    \/ \E key \in Keys, value \in Values : Insert("a", key, value)
    \/ \E key \in Keys : Erase("a", key)
    \/ Clear("a")
    \/ \E key \in Keys, value \in Values : SubscriptAssign("a", key, value)
    \/ \E key \in Keys, value \in Values : AtAssign("a", key, value)
    \/ CopyAssign("a", "a")

Spec == Init /\ [][Next]_vars

\* two tables, each changed by its own calls and by assignment of the other
NextPair ==
    \/ \E t \in Tables, key \in PairKeys, value \in Values : Insert(t, key, value)
    \/ \E t \in Tables, key \in PairKeys : Erase(t, key)
    \/ \E t \in Tables : Clear(t)
    \/ \E t \in Tables, key \in PairKeys, value \in Values : SubscriptAssign(t, key, value)
    \/ \E t \in Tables, s \in Tables : CopyAssign(t, s)
    \/ \E t \in Tables, s \in Tables : Compare(t, s)

SpecPair == Init /\ [][NextPair]_vars

\* the value the insert-only client stores with key
FillValue(key) == key % NumValues

\* the insert-only client: a.insert(key, FillValue(key)) with a key it has
\* not passed before
FillInsert(key) ==
    /\ key \notin filled
    /\ maps' = [maps EXCEPT !["a"] = insert(maps["a"], key, FillValue(key)).map]
    /\ last' = Call("insert", "a", key, insert(maps["a"], key, FillValue(key)).ret)
    /\ filled' = filled \cup {key}
    /\ UNCHANGED own

\* the keys not yet passed, taken from either end
FillLow == FillInsert(CHOOSE k \in FillKeys \ filled : \A j \in FillKeys \ filled : k <= j)
FillHigh == FillInsert(CHOOSE k \in FillKeys \ filled : \A j \in FillKeys \ filled : k >= j)

NextFill ==
    \/ filled # FillKeys /\ FillLow
    \/ filled # FillKeys /\ FillHigh

SpecFill == Init /\ [][NextFill]_vars

\* every sequence over S of at most n elements
SeqsUpTo(S, n) == UNION {[1 .. len -> S] : len \in 0 .. n}

\* n keys that go round the first d keys, each round with its own value
RoundKeys(n, d) == [i \in 1 .. n |-> (i - 1) % d]
RoundValues(n, d) == [i \in 1 .. n |-> ((i - 1) \div d) % NumValues]

\* HashMap t(keys, values), the first call of the program: a throwing
\* constructor leaves no object, the table it delegated to
\* HashMap(INIT_CAPACITY) for is destroyed
BulkConstruct(t, keys, values) ==
    LET r == BulkCtor(keys, values)
    IN  /\ maps[t] = NoTable /\ last = NoCall
        /\ maps' = [maps EXCEPT ![t] = IF r.threw THEN NoTable ELSE r.map]
        /\ last' = [op |-> "construct", tbl |-> t, key |-> 0, ret |-> ~r.threw,
                    keys |-> keys, values |-> values, inserted |-> size(r.map)]
        /\ UNCHANGED <<filled, own>>

\* table "a" is still to be constructed
InitBulk ==
    /\ maps = [t \in Tables |-> IF t = "a" THEN NoTable ELSE NewMap(INIT_CAPACITY)]
    /\ last = NoCall
    /\ filled = {}
    /\ InitOwn

\* a bulk construction of "a": from any two short vectors, or from vectors
\* that go round up to NumFillKeys keys and end up to two keys after them
NextBulk ==
    \/ /\ last = NoCall
       /\ \E keys \in SeqsUpTo(Keys, MaxBulkLen),
             values \in SeqsUpTo(Values, MaxBulkLen) :
               BulkConstruct("a", keys, values)
    \/ /\ last = NoCall
       /\ \E n \in 0 .. (NumFillKeys + 2), d \in 1 .. NumFillKeys :
               BulkConstruct("a", RoundKeys(n, d), RoundValues(n, d))

SpecBulk == InitBulk /\ [][NextBulk]_vars

\* a call of a const member function of t with its outcome r
Query(op, t, key, r) ==
    /\ last' = [op |-> op, tbl |-> t, key |-> key, ret |-> r.how = "returned",
                how |-> r.how, value |-> r.value]
    /\ UNCHANGED <<maps, filled, own>>

\* t.at(key), read only
At(t, key) == Query("at_const", t, key, AtOutcome(maps[t], key))

\* t.containsKey(key)
ContainsKey(t, key) == Query("containsKey", t, key, ContainsKeyOutcome(maps[t], key))

\* t.bucketIndex(key)
BucketIndex(t, key) == Query("bucketIndex", t, key, bucketIndex(maps[t], key))

\* t.bucketSize(key)
BucketSize(t, key) == Query("bucketSize", t, key, bucketSize(maps[t], key))

\* t[key] on a const table
ConstSubscript(t, key) ==
    \E r \in ConstSubscriptOutcomes(maps[t], key) : Query("subscript_const", t, key, r)

\* t[key], the reference not stored through
SubscriptRef(t, key) ==
    /\ maps' = [maps EXCEPT ![t] = Subscript(maps[t], key)]
    /\ last' = Call("subscript_ref", t, key, TRUE)
    /\ UNCHANGED <<filled, own>>

\* one table, "a", filled through operator[] and emptied by erase
NextSubscript ==
    \/ \E key \in Keys, value \in Values : SubscriptAssign("a", key, value)
    \/ \E key \in Keys : SubscriptRef("a", key)
    \/ \E key \in Keys : Erase("a", key)

SpecSubscript == Init /\ [][NextSubscript]_vars

\* one table, "a", changed by insert and erase, and queried
NextQuery ==
    \/ \E key \in Keys, value \in Values : Insert("a", key, value)
    \/ \E key \in Keys : Erase("a", key)
    \/ \E key \in Keys : At("a", key)
    \/ \E key \in Keys : ContainsKey("a", key)
    \/ \E key \in Keys : BucketIndex("a", key)
    \/ \E key \in Keys : BucketSize("a", key)
    \/ \E key \in Keys : ConstSubscript("a", key)

SpecQuery == Init /\ [][NextQuery]_vars

\* The calls on the two objects record in last the call and the object, not
\* the key or the value returned.
\* the members of t can be called: its _hashTable points to an array
Usable(t) == objs[t].hashTable # nullptr

\* the value the client of the two objects inserts with key: never the
\* default value it stores through operator[]
OwnValue(key) == 1 + (key % (NumValues - 1))

\* t.insert(key, OwnValue(key)) on an object
OwnInsert(t, key) ==
    /\ Usable(t) /\ HasFree(heap)
    /\ objs' = [objs EXCEPT ![t] =
                   Written(objs[t], heap, insert(maps[t], key, OwnValue(key)).map).obj]
    /\ heap' = Written(objs[t], heap, insert(maps[t], key, OwnValue(key)).map).heap
    /\ maps' = [u \in Tables |-> View(objs'[u], heap')]
    /\ last' = Call("insert", t, 0, TRUE)
    /\ UNCHANGED filled

\* t.erase(key) on an object
OwnErase(t, key) ==
    /\ Usable(t) /\ HasFree(heap)
    /\ objs' = [objs EXCEPT ![t] = Written(objs[t], heap, erase(maps[t], key).map).obj]
    /\ heap' = Written(objs[t], heap, erase(maps[t], key).map).heap
    /\ maps' = [u \in Tables |-> View(objs'[u], heap')]
    /\ last' = Call("erase", t, 0, TRUE)
    /\ UNCHANGED filled

\* t.clear() on an object
OwnClear(t) ==
    /\ Usable(t)
    /\ objs' = [objs EXCEPT ![t] = Written(objs[t], heap, clear(maps[t])).obj]
    /\ heap' = Written(objs[t], heap, clear(maps[t])).heap
    /\ maps' = [u \in Tables |-> View(objs'[u], heap')]
    /\ last' = Call("clear", t, 0, TRUE)
    /\ UNCHANGED filled

\* t[key] = ValueT() on an object
OwnSubscriptAssign(t, key) ==
    /\ Usable(t) /\ HasFree(heap)
    /\ objs' = [objs EXCEPT ![t] =
                   Written(objs[t], heap,
                           SetSecond(Subscript(maps[t], key), key, DefaultValue)).obj]
    /\ heap' = Written(objs[t], heap,
                       SetSecond(Subscript(maps[t], key), key, DefaultValue)).heap
    /\ maps' = [u \in Tables |-> View(objs'[u], heap')]
    /\ last' = Call("subscript", t, 0, TRUE)
    /\ UNCHANGED filled

\* t = s: operator=(HashMap other) with other copy-constructed from s;
\* _swap gives t the members of other, and other dies with those of t
OwnCopyAssign(t, s) ==
    /\ t # s /\ Usable(s) /\ HasFree(heap)
    /\ objs' = [objs EXCEPT ![t] = CopyConstruct(objs[s], heap).obj]
    /\ heap' = Destroy(objs[t], CopyConstruct(objs[s], heap).heap)
    /\ maps' = [u \in Tables |-> View(objs'[u], heap')]
    /\ last' = Call("assign", t, 0, TRUE)
    /\ UNCHANGED filled

\* t = std::move(s): other is move-constructed from s
OwnMoveAssign(t, s) ==
    /\ t # s /\ Usable(s)
    /\ objs' = [objs EXCEPT ![t] = MoveConstruct(objs[s], heap).obj,
                            ![s] = MoveConstruct(objs[s], heap).source]
    /\ heap' = Destroy(objs[t], MoveConstruct(objs[s], heap).heap)
    /\ maps' = [u \in Tables |-> View(objs'[u], heap')]
    /\ last' = Call("move", t, 0, TRUE)
    /\ UNCHANGED filled

\* two objects that own their arrays; a moved-from object is only assigned to
NextOwn ==
    \/ \E t \in Tables, key \in PairKeys : OwnInsert(t, key)
    \/ \E t \in Tables, key \in PairKeys : OwnErase(t, key)
    \/ \E t \in Tables : OwnClear(t)
    \/ \E t \in Tables, key \in PairKeys : OwnSubscriptAssign(t, key)
    \/ \E t \in Tables, s \in Tables : OwnCopyAssign(t, s)
    \/ \E t \in Tables, s \in Tables : OwnMoveAssign(t, s)

SpecOwn == Init /\ [][NextOwn]_vars

\* The keys of the client that numbers its inserts: low keys, which share
\* a bucket at the initial capacity, and the key INIT_CAPACITY, whose bucket
\* is another one at capacity 16 and theirs at capacity 8.
OrderKeys == (0 .. (NumOrderKeys - 1)) \cup {INIT_CAPACITY}

\* the number the client gives its next insert: one more than every number
\* it reads in the table
RECURSIVE MaxSecond(_, _)
MaxSecond(pairs, i) ==
    IF i > Len(pairs) THEN 0
    ELSE IF pairs[i][2] > MaxSecond(pairs, i + 1) THEN pairs[i][2]
    ELSE MaxSecond(pairs, i + 1)
NextStamp(m) == 1 + MaxSecond(Traverse(m), 1)

\* a.insert(key, n), n the number of this insert
StampInsert(key) ==
    /\ NextStamp(maps["a"]) <= MaxStamp
    /\ Insert("a", key, NextStamp(maps["a"]))

\* one table, "a", with inserts numbered in the order of the calls, and erases
NextOrder ==
    \/ \E key \in OrderKeys : StampInsert(key)
    \/ \E key \in OrderKeys : Erase("a", key)

SpecOrder == Init /\ [][NextOrder]_vars

\* the lifetime of t has begun and not ended; t may be moved from
Alive(t) == objs[t] # NoObject

\* t goes out of scope: ~HashMap()
OwnDestroy(t) ==
    /\ Alive(t)
    /\ objs' = [objs EXCEPT ![t] = NoObject]
    /\ heap' = Destroy(objs[t], heap)
    /\ maps' = [u \in Tables |-> View(objs'[u], heap')]
    /\ last' = Call("destroy", t, 0, TRUE)
    /\ UNCHANGED filled

\* HashMap t;
OwnDefaultConstruct(t) ==
    /\ ~Alive(t) /\ HasFree(heap)
    /\ objs' = [objs EXCEPT ![t] = DefaultConstruct(heap).obj]
    /\ heap' = DefaultConstruct(heap).heap
    /\ maps' = [u \in Tables |-> View(objs'[u], heap')]
    /\ last' = Call("construct", t, 0, TRUE)
    /\ UNCHANGED filled

\* HashMap t(s);
OwnCopyConstruct(t, s) ==
    /\ ~Alive(t) /\ Usable(s) /\ HasFree(heap)
    /\ objs' = [objs EXCEPT ![t] = CopyConstruct(objs[s], heap).obj]
    /\ heap' = CopyConstruct(objs[s], heap).heap
    /\ maps' = [u \in Tables |-> View(objs'[u], heap')]
    /\ last' = Call("copy_construct", t, 0, TRUE)
    /\ UNCHANGED filled

\* HashMap t(std::move(s));
OwnMoveConstruct(t, s) ==
    /\ ~Alive(t) /\ Usable(s)
    /\ objs' = [objs EXCEPT ![t] = MoveConstruct(objs[s], heap).obj,
                            ![s] = MoveConstruct(objs[s], heap).source]
    /\ heap' = MoveConstruct(objs[s], heap).heap
    /\ maps' = [u \in Tables |-> View(objs'[u], heap')]
    /\ last' = Call("move_construct", t, 0, TRUE)
    /\ UNCHANGED filled

\* t = s and t = std::move(s) on an object t whose lifetime has not ended
LifeCopyAssign(t, s) == Alive(t) /\ OwnCopyAssign(t, s)
LifeMoveAssign(t, s) == Alive(t) /\ OwnMoveAssign(t, s)

\* two objects with their lifetimes: constructed, written, assigned to while
\* alive, destroyed
NextLife ==
    \/ \E t \in Tables, key \in PairKeys : OwnInsert(t, key)
    \/ \E t \in Tables, key \in PairKeys : OwnErase(t, key)
    \/ \E t \in Tables, s \in Tables : LifeCopyAssign(t, s)
    \/ \E t \in Tables, s \in Tables : LifeMoveAssign(t, s)
    \/ \E t \in Tables : OwnDestroy(t)
    \/ \E t \in Tables : OwnDefaultConstruct(t)
    \/ \E t \in Tables, s \in Tables : OwnCopyConstruct(t, s)
    \/ \E t \in Tables, s \in Tables : OwnMoveConstruct(t, s)

SpecLife == Init /\ [][NextLife]_vars

\* the keys of the two tables that are compared both ways
SymKeys == 0 .. (NumSymKeys - 1)

\* table a takes any value and loses keys again, table b takes one value
\* per key; either is compared with the other
NextSym ==
    \/ \E key \in SymKeys, value \in Values : Insert("a", key, value)
    \/ \E key \in SymKeys : Erase("a", key)
    \/ \E key \in SymKeys : Insert("b", key, FillValue(key))
    \/ \E key \in SymKeys : Erase("b", key)
    \/ \E t \in Tables, s \in Tables : Compare(t, s)

SpecSym == Init /\ [][NextSym]_vars

\* it1 == it2 for it1 = t.begin() advanced left times and it2 = t.begin()
\* advanced right times; an iterator at end() is not advanced
IterCompare(t, left, right) ==
    /\ left <= size(maps[t]) /\ right <= size(maps[t])
    /\ last' = [op |-> "iter_eq", tbl |-> t, key |-> 0,
                ret |-> IterEq(Advance(maps[t], cbegin(maps[t]), left),
                               Advance(maps[t], cbegin(maps[t]), right)),
                left |-> left, right |-> right]
    /\ UNCHANGED <<maps, filled, own>>

\* one table, "a", changed by insert and erase, and two iterators compared
NextIter ==
    \/ \E key \in Keys : Insert("a", key, FillValue(key))
    \/ \E key \in Keys : Erase("a", key)
    \/ \E left \in 0 .. NumKeys, right \in 0 .. NumKeys : IterCompare("a", left, right)

SpecIter == Init /\ [][NextIter]_vars

\* ------------------------------- claims --------------------------------
\* the table of the one-table specifications
A == maps["a"]

\* the places <<bucket, position>> of the bucket array of m that hold a pair
Places(m) ==
    UNION {{<<i, j>> : j \in 1 .. Len(BucketAt(m, i))} : i \in 0 .. (capacity(m) - 1)}
PairAtPlace(m, p) == BucketAt(m, p[1])[p[2]]

\* some call has returned
Returned == last.op # "none"

\* C1 as claimed: after every mutating operation has returned, size()/capacity()
\* is at least 1/4 and below 3/4, unless capacity() is the minimum capacity 1.
C1_LoadFactorWithinBounds ==
    Returned =>
        \/ capacity(A) = MIN_CAPACITY
        \/ /\ 4 * size(A) >= capacity(A)
           /\ 4 * size(A) < 3 * capacity(A)

\* C1 as amended: after every mutating operation has returned, size() is not
\* negative and size()/capacity() is at most 3/4, the bound 3/4 included.
C1_LoadFactorAtMostUpper ==
    Returned => size(A) >= 0 /\ 4 * size(A) <= 3 * capacity(A)

\* a table that sits exactly on the upper load factor after an insert
C1_Witness ==
    /\ last.op = "insert" /\ last.ret
    /\ size(A) > 0
    /\ 4 * size(A) = 3 * capacity(A)

IsPowerOfTwo(n) == \E e \in 0 .. 6 : n = 2 ^ e

\* C2: in every reachable state of tables made by the default constructor and
\* changed by insert, erase, clear, operator[] and copy assignment, capacity()
\* is a power of two and at least the minimum capacity 1.
C2_CapacityPowerOfTwo ==
    \A t \in Tables :
        IsPowerOfTwo(capacity(maps[t])) /\ capacity(maps[t]) >= MIN_CAPACITY

\* one table grown from capacity 1 to 2 by an insert while the other one, once
\* assigned from it, still has the minimum capacity
C2_Witness ==
    /\ last.op = "insert" /\ last.ret /\ last.tbl = "a"
    /\ capacity(maps["a"]) = 2 /\ size(maps["a"]) = 1
    /\ capacity(maps["b"]) = MIN_CAPACITY

\* C3: after every public operation has returned, every stored key is in
\* exactly one entry, and that entry is in bucket hash(key) mod capacity.
C3_OneEntryInHashedBucket ==
    /\ \A p \in Places(A) : p[1] = Hash(PairAtPlace(A, p)[1]) % capacity(A)
    /\ \A p, q \in Places(A) :
           PairAtPlace(A, p)[1] = PairAtPlace(A, q)[1] => p = q

\* after a growth from capacity 2 to 4: three keys, two of them sharing a bucket
C3_Witness ==
    /\ last.op \in {"insert", "subscript"}
    /\ capacity(A) = 4 /\ size(A) = 3
    /\ \E p \in Places(A) : p[2] = 2

\* the keys m holds, by lookup
KeysOf(m, universe) == {k \in universe : containsKey(m, k)}

\* C4: for every sequence of insert calls with pairwise distinct keys on an
\* initially empty table, each insert returns true, size() is the number of
\* keys inserted and containsKey(k) holds for every inserted k.
C4_DistinctInsertsAllKept ==
    /\ last.op = "insert" => last.ret
    /\ size(A) = Cardinality(filled)
    /\ \A k \in filled : containsKey(A, k)

\* every key of the client inserted, across the growth to capacity 32
C4_Witness ==
    /\ filled = FillKeys
    /\ last.op = "insert" /\ last.ret
    /\ capacity(A) = 2 * INIT_CAPACITY

\* C5: insert(key, value) on a table that contains key returns false and
\* changes neither size, capacity nor any bucket.
C5_InsertPresentKeyNoChange ==
    [][(last'.op = "insert" /\ containsKey(A, last'.key))
          => (~last'.ret /\ maps' = maps)]_vars

\* a refused insert of a key that shares its bucket with another key
C5_Witness ==
    /\ last.op = "insert" /\ ~last.ret
    /\ containsKey(A, last.key)
    /\ Len(BucketAt(A, _hash(A, last.key))) >= 2

\* C6: erase(k) of a present k returns true, takes one off size(), makes
\* containsKey(k) false and keeps every other key with its value; erase(k) of
\* an absent k returns false and changes nothing.
C6_EraseRemovesExactlyKey ==
    [][last'.op = "erase" =>
          LET k == last'.key
              m == maps["a"]
              m2 == maps'["a"]
          IN  IF containsKey(m, k)
              THEN /\ last'.ret
                   /\ size(m2) = size(m) - 1
                   /\ ~containsKey(m2, k)
                   /\ \A j \in Keys \ {k} :
                          containsKey(m, j) =>
                              containsKey(m2, j) /\ at(m2, j) = at(m, j)
              ELSE ~last'.ret /\ maps' = maps]_vars

\* an erase of the first of two keys of one bucket, the other key left behind
C6_Witness ==
    /\ last.op = "erase" /\ last.ret
    /\ ~containsKey(A, last.key)
    /\ \E j \in Keys : j > last.key /\ containsKey(A, j) /\ _hash(A, j) = _hash(A, last.key)

\* C7: once insert(key, value) has returned true, at(key) is value, and it
\* stays so across every insert and every erase of another key, resizes included.
C7_AtReturnsInsertedValue ==
    [][/\ (last'.op = "insert" /\ last'.ret) =>
              \A v \in Values :
                  maps'["a"] = insert(A, last'.key, v).map
                      => /\ containsKey(maps'["a"], last'.key)
                         /\ at(maps'["a"], last'.key) = v
       /\ \A j \in Keys :
              (/\ \/ last'.op = "insert"
                  \/ last'.op = "erase" /\ last'.key # j
               /\ containsKey(A, j))
                  => containsKey(maps'["a"], j) /\ at(maps'["a"], j) = at(A, j)]_vars

\* two keys with different values that came through the shrink from 16 to 8
C7_Witness ==
    /\ last.op = "erase" /\ last.ret
    /\ capacity(A) = 8 /\ size(A) = 2
    /\ \E j, k \in Keys : /\ containsKey(A, j) /\ containsKey(A, k)
                          /\ at(A, j) # at(A, k)

\* the pairs a sequence holds
Range(seq) == {seq[i] : i \in 1 .. Len(seq)}

\* C8: a traversal from begin() reaches end() after exactly size() increments
\* and yields the live (key, value) pairs of the table, each of them once.
C8_TraversalYieldsLiveEntries ==
    LET visited == Traverse(A)
    IN  /\ Len(visited) = size(A)
        /\ Cardinality(Range(visited)) = Len(visited)
        /\ Range(visited) = {<<k, at(A, k)>> : k \in KeysOf(A, Keys)}

\* three entries in two buckets, with empty buckets before, between and after
C8_Witness ==
    /\ size(A) = 3 /\ capacity(A) = 8
    /\ \E p \in Places(A) : p[2] = 2
    /\ BucketAt(A, 0) = << >> /\ BucketAt(A, capacity(A) - 1) = << >>

\* C9: an insert of a new key doubles the capacity, once, exactly when
\* size/capacity with the new entry counted is above 3/4, and leaves it alone
\* otherwise; from the empty table of capacity 16 the first 12 distinct inserts
\* keep capacity 16 and the 13th makes it 32.
C9_GrowthOnInsert ==
    [][last'.op = "insert" =>
          LET m == maps["a"]
              m2 == maps'["a"]
          IN  /\ capacity(m2) =
                     IF /\ ~containsKey(m, last'.key)
                        /\ 4 * (size(m) + 1) > 3 * capacity(m)
                     THEN 2 * capacity(m)
                     ELSE capacity(m)
              /\ Cardinality(filled') <= 12 => capacity(m2) = 16
              /\ Cardinality(filled') = 13 => capacity(m2) = 32]_vars

\* the 13th distinct insert has returned
C9_Witness ==
    /\ last.op = "insert" /\ last.ret
    /\ Cardinality(filled) = 13
    /\ capacity(A) = 32

\* C10: a successful erase halves the capacity, once, exactly when after the
\* removal size/capacity is below 1/4 and the capacity is above the minimum 1;
\* an unsuccessful erase keeps the capacity; capacity() never goes below 1.
C10_ShrinkOnErase ==
    [][/\ last'.op = "erase" =>
              LET m == maps["a"]
                  m2 == maps'["a"]
              IN  capacity(m2) =
                      IF /\ last'.ret
                         /\ 4 * (size(m) - 1) < capacity(m)
                         /\ capacity(m) > MIN_CAPACITY
                      THEN capacity(m) \div 2
                      ELSE capacity(m)
       /\ capacity(maps'["a"]) >= MIN_CAPACITY]_vars

\* an erase that halved the table down to the minimum capacity
C10_Witness ==
    /\ last.op = "erase" /\ last.ret
    /\ capacity(A) = MIN_CAPACITY

\* the other one of the two tables
Other(t) == CHOOSE s \in Tables : s # t

\* the set of (key, value) pairs m holds, by lookup
PairsOf(m, universe) == {<<k, at(m, k)>> : k \in KeysOf(m, universe)}

LastIndex(seq, x) ==
    CHOOSE i \in 1 .. Len(seq) :
        seq[i] = x /\ \A j \in (i + 1) .. Len(seq) : seq[j] # x

\* C12: the bulk constructor on keys and values of equal length yields a
\* table whose keys are the distinct elements of keys, whose size is their
\* number, and where at(k) is values[i] for the last i with keys[i] = k,
\* also when the construction grows the table.
C12_BulkLastValueWins ==
    (last.op = "construct" /\ Len(last.keys) = Len(last.values)) =>
        LET m == maps[last.tbl]
        IN  /\ last.ret
            /\ KeysOf(m, Keys \cup FillKeys) = Range(last.keys)
            /\ size(m) = Cardinality(Range(last.keys))
            /\ \A k \in Range(last.keys) :
                   at(m, k) = last.values[LastIndex(last.keys, k)]

\* a construction that grew the table and met keys again after the growth
C12_Witness ==
    /\ last.op = "construct" /\ last.ret
    /\ capacity(A) = INIT_CAPACITY * TABLE_SIZE_FACTOR
    /\ Len(last.keys) > size(A)
    /\ \E k \in Range(last.keys) : at(A, k) # DefaultValue

\* C13: the bulk constructor on keys and values of different lengths fails
\* with a length mismatch before it stores any pair, and leaves no table.
C13_BulkLengthMismatch ==
    (last.op = "construct" /\ Len(last.keys) # Len(last.values)) =>
        /\ ~last.ret
        /\ last.inserted = 0
        /\ maps[last.tbl] = NoTable

\* a failed construction from two vectors that both hold something
C13_Witness ==
    /\ last.op = "construct" /\ ~last.ret
    /\ Len(last.keys) > 0 /\ Len(last.values) > 0

\* key is the first of a pair stored somewhere in the bucket array of m
Stored(m, key) == \E p \in Places(m) : PairAtPlace(m, p)[1] = key

\* C14: at, bucketSize and bucketIndex fail with KeyNotFound exactly when the
\* key is absent, and the failing call leaves size, capacity and entries as
\* they were; containsKey never fails and is true exactly when at succeeds.
C14_QueriesFailOnAbsentKey ==
    [][/\ last'.op \in {"at_const", "bucketSize", "bucketIndex"} =>
            /\ last'.how \in {"returned", "threw"}
            /\ last'.how = "threw" <=> ~Stored(A, last'.key)
            /\ last'.how = "threw" => maps' = maps
       /\ last'.op = "containsKey" =>
            /\ last'.how = "returned"
            /\ last'.value <=> AtOutcome(A, last'.key).how = "returned"
            /\ last'.value <=> Stored(A, last'.key)]_vars

\* bucketIndex has thrown for an absent key of a table that holds another
C14_Witness ==
    /\ last.op = "bucketIndex" /\ last.how = "threw"
    /\ size(A) > 0

\* C15: mutable operator[] always succeeds.  On a present key it leaves size
\* and capacity alone and refers to the stored value; on an absent key it
\* adds the key with the default value, size grows by one, capacity stays or
\* doubles, and the reference is to the entry of the table after any growth:
\* after m[key] = v, at(key) is v.
C15_SubscriptAddsOrRefers ==
    [][last'.op \in {"subscript", "subscript_ref"} =>
        LET key == last'.key
            after == maps'["a"]
        IN  /\ last'.ret
            /\ Stored(after, key)
            /\ Stored(A, key) =>
                   /\ size(after) = size(A)
                   /\ capacity(after) = capacity(A)
                   /\ last'.op = "subscript_ref" => after = A
            /\ ~Stored(A, key) =>
                   /\ size(after) = size(A) + 1
                   /\ capacity(after) \in {capacity(A), capacity(A) * TABLE_SIZE_FACTOR}
                   /\ last'.op = "subscript_ref" => at(after, key) = DefaultValue
            /\ \A value \in Values :
                   \/ AtOutcome(after, key) = Returns(value)
                   \/ ~SubscriptAssign("a", key, value)
            /\ \A k \in Keys \ {key} : AtOutcome(after, k) = AtOutcome(A, k)]_vars

\* m[key] = v has added key to a table that grew in the call
C15_Witness ==
    /\ last.op = "subscript"
    /\ size(A) = 2 /\ capacity(A) = 4
    /\ at(A, last.key) # DefaultValue
    /\ BucketAt(A, _hash(A, last.key))[Len(BucketAt(A, _hash(A, last.key)))][1] = last.key

\* C16 as claimed: read-only operator[] with an absent key fails with
\* NotFound and never returns the value of some other entry.
C16_ConstSubscriptAbsentFails ==
    (last.op = "subscript_const" /\ ~Stored(A, last.key)) => last.how = "threw"

\* C17: clear() empties every bucket and sets size to 0; capacity is as it
\* was before the call (clear never shrinks), and containsKey is false for
\* every key afterwards.
C17_ClearEmptiesKeepsCapacity ==
    [][last'.op = "clear" =>
        /\ size(maps'["a"]) = 0
        /\ empty(maps'["a"])
        /\ capacity(maps'["a"]) = capacity(A)
        /\ Places(maps'["a"]) = {}
        /\ \A k \in Keys : ~containsKey(maps'["a"], k)]_vars

\* a clear of a table that erases had shrunk to two buckets
C17_Witness ==
    /\ last.op = "clear"
    /\ capacity(A) = 2
    /\ size(A) = 0

\* C18: copy construction and copy assignment produce a table equal to the
\* source, of the same capacity and size, that owns its own storage; the
\* source is unchanged, and an insert, erase, clear or value overwrite on
\* either table leaves the other unchanged.
C18_CopyIsEqualAndOwnsStorage ==
    [][/\ last'.op = "assign" =>
            LET t == last'.tbl
                s == Other(last'.tbl)
            IN  /\ Equals(maps'[t], maps'[s]) /\ Equals(maps'[s], maps'[t])
                /\ capacity(maps'[t]) = capacity(maps[s])
                /\ size(maps'[t]) = size(maps[s])
                /\ maps'[s] = maps[s]
                /\ objs'[t].hashTable # objs'[s].hashTable
                /\ heap'[objs'[t].hashTable] # Freed
       /\ last'.op \in {"insert", "erase", "clear", "subscript"} =>
            maps'[Other(last'.tbl)] = maps[Other(last'.tbl)]]_vars

\* a copy of a table that holds a pair in a shrunk array
C18_Witness ==
    /\ last.op = "assign"
    /\ size(maps["a"]) > 0
    /\ capacity(maps["a"]) < INIT_CAPACITY
    /\ maps["a"] = maps["b"]
    /\ objs["a"].hashTable # objs["b"].hashTable

\* C19 as claimed: after move construction or move assignment from S the
\* destination holds the entries and the capacity S had, and S is empty and
\* destroyable: S.size() is 0 and S.empty() is true.
C19_MoveLeavesSourceEmpty ==
    [][last'.op = "move" =>
        /\ maps'[last'.tbl] = maps[Other(last'.tbl)]
        /\ size(maps'[Other(last'.tbl)]) = 0
        /\ empty(maps'[Other(last'.tbl)])]_vars

\* the index of key's pair in the sequence of pairs a traversal yields
PlaceIn(pairs, key) == CHOOSE i \in 1 .. Len(pairs) : pairs[i][1] = key

\* the pairs of the traversal come in ascending bucket index
AscendingBuckets(m) ==
    \A i \in 1 .. Len(Traverse(m)), j \in 1 .. Len(Traverse(m)) :
        i < j => _hash(m, Traverse(m)[i][1]) <= _hash(m, Traverse(m)[j][1])

\* C20 as claimed: in every reachable state, also after erases that shrink
\* and inserts that grow, a traversal visits the entries in ascending bucket
\* index, and two entries of one bucket in the order in which the caller's
\* insert calls added them.
C20_TraversalInInsertionOrder ==
    /\ AscendingBuckets(A)
    /\ \A i \in 1 .. Len(Traverse(A)), j \in 1 .. Len(Traverse(A)) :
           (i < j /\ _hash(A, Traverse(A)[i][1]) = _hash(A, Traverse(A)[j][1]))
               => Traverse(A)[i][2] < Traverse(A)[j][2]

\* C20 as amended: a traversal visits the entries in ascending bucket index;
\* a successful insert leaves its key behind the other entries of its bucket,
\* and every operation, resizes included, keeps for two entries that end in
\* one bucket the order the traversal before it gave them.
C20_TraversalKeepsOrder ==
    [][LET before == Traverse(A)
           after == Traverse(maps'["a"])
       IN  /\ AscendingBuckets(maps'["a"])
           /\ (last'.op = "insert" /\ last'.ret) =>
                  \A i \in 1 .. Len(after) :
                      _hash(maps'["a"], after[i][1]) = _hash(maps'["a"], last'.key)
                          => i <= PlaceIn(after, last'.key)
           /\ \A j \in OrderKeys, k \in OrderKeys :
                  ( /\ j # k
                    /\ Stored(A, j) /\ Stored(A, k)
                    /\ Stored(maps'["a"], j) /\ Stored(maps'["a"], k)
                    /\ _hash(maps'["a"], j) = _hash(maps'["a"], k) )
                  => (PlaceIn(after, j) < PlaceIn(after, k)
                          <=> PlaceIn(before, j) < PlaceIn(before, k))]_vars

\* an erase has shrunk the table and merged two buckets: the key inserted
\* later comes first
C20_Witness ==
    /\ last.op = "erase" /\ last.ret
    /\ capacity(A) = 8
    /\ Stored(A, 0) /\ Stored(A, INIT_CAPACITY)
    /\ PlaceIn(Traverse(A), 0) < PlaceIn(Traverse(A), INIT_CAPACITY)
    /\ at(A, 0) > at(A, INIT_CAPACITY)

\* the pairs of buckets i .. capacity - 1, bucket after bucket
RECURSIVE PairsFromBucket(_, _)
PairsFromBucket(m, i) ==
    IF i >= capacity(m) THEN << >>
    ELSE BucketAt(m, i) \o PairsFromBucket(m, i + 1)

\* C21: two iterators over the same unmodified table compare equal exactly
\* when both are on the same entry or both are at end; begin() is on the
\* first entry of the lowest non-empty bucket, and begin() == end() holds
\* exactly when the table is empty.
C21_IteratorEquality ==
    LET entries == PairsFromBucket(A, 0)
    IN  /\ \A n \in 0 .. (Len(entries) - 1) :
               /\ Deref(A, Advance(A, cbegin(A), n)) = entries[n + 1]
               /\ ~IterEq(Advance(A, cbegin(A), n), cend(A))
        /\ IterEq(Advance(A, cbegin(A), Len(entries)), cend(A))
        /\ IterEq(cbegin(A), cend(A)) <=> entries = << >>
        /\ last.op = "iter_eq" => (last.ret <=> last.left = last.right)

\* two iterators on different entries of one bucket have compared unequal
C21_Witness ==
    /\ last.op = "iter_eq" /\ ~last.ret
    /\ last.left < size(A) /\ last.right < size(A)
    /\ Advance(A, cbegin(A), last.left).currBucket
           = Advance(A, cbegin(A), last.right).currBucket

\* every pair of m is in the bucket its key hashes to under capacity(m), the
\* bucket array has capacity(m) buckets and they hold size(m) pairs
FullyMigrated(m) ==
    /\ Len(m.hashTable) = capacity(m)
    /\ Cardinality(Places(m)) = size(m)
    /\ \A p \in Places(m) :
           p[1] = BitAnd(Hash(PairAtPlace(m, p)[1]), capacity(m) - 1)

\* C22: a resize is all-or-nothing: when an insert that grows or an erase
\* that shrinks returns, the (key, value) pairs and size() are those of the
\* table just before the resize step (the old pairs with the new one added,
\* or with the erased one taken away), every pair is in the new bucket
\* array, and only capacity and placement differ.
C22_ResizeAllOrNothing ==
    [][\A key \in Keys :
           /\ (Insert("a", key, FillValue(key)) /\ capacity(A') # capacity(A)) =>
                  /\ PairsOf(A', Keys) = PairsOf(A, Keys) \cup {<<key, FillValue(key)>>}
                  /\ size(A') = size(A) + 1
                  /\ size(A') = Cardinality(PairsOf(A', Keys))
                  /\ FullyMigrated(A')
           /\ (Erase("a", key) /\ capacity(A') # capacity(A)) =>
                  /\ PairsOf(A', Keys) = {p \in PairsOf(A, Keys) : p[1] # key}
                  /\ size(A') = size(A) - 1
                  /\ size(A') = Cardinality(PairsOf(A', Keys))
                  /\ FullyMigrated(A')]_vars

\* an erase has shrunk the table of three entries from the initial capacity
\* and moved the two entries left
C22_Witness ==
    /\ last.op = "erase" /\ last.ret
    /\ capacity(A) = INIT_CAPACITY \div TABLE_SIZE_FACTOR
    /\ size(A) = 2
    /\ FullyMigrated(A)

\* C23 as claimed: const operator[] with an absent key returns, in every
\* reachable state of the table and also when the table is empty, the value
\* of an entry stored in the table, the first one in iteration order.
C23_ConstSubscriptAbsentReturnsStored ==
    (last.op = "subscript_const" /\ ~Stored(A, last.key)) =>
        /\ last.how = "returned"
        /\ \E p \in Places(A) :
               /\ \A q \in Places(A) : p[1] <= q[1]
               /\ p[2] = 1
               /\ last.value = PairAtPlace(A, p)[2]

\* the bucket index of key under the capacity of m, and the stored keys of
\* one bucket index
IndexOf(m, key) == BitAnd(Hash(key), capacity(m) - 1)
StoredAt(m, i) == {k \in Keys : Stored(m, k) /\ IndexOf(m, k) = i}

\* one stored key of every non-empty bucket
Representatives(m) ==
    {CHOOSE k \in StoredAt(m, i) : TRUE :
        i \in {j \in 0 .. (capacity(m) - 1) : StoredAt(m, j) # {}}}

\* the sum of bucketSize(key) over the keys of reps
RECURSIVE SumBucketSizes(_, _)
SumBucketSizes(m, reps) ==
    IF reps = {} THEN 0
    ELSE LET k == CHOOSE key \in reps : TRUE
         IN  bucketSize(m, k).value + SumBucketSizes(m, reps \ {k})

\* C24: for every key present, bucketIndex(key) is hash(key) AND
\* (capacity() - 1) under the current capacity and bucketSize(key) is the
\* number of stored keys of that bucket index, at least 1; bucketSize summed
\* over one key of every non-empty bucket is size().
C24_BucketIndexAndSize ==
    /\ \A k \in Keys :
           Stored(A, k) =>
               /\ bucketIndex(A, k) = Returns(IndexOf(A, k))
               /\ bucketSize(A, k) = Returns(Cardinality(StoredAt(A, IndexOf(A, k))))
               /\ bucketSize(A, k).value >= 1
    /\ SumBucketSizes(A, Representatives(A)) = size(A)
    /\ (last.op = "bucketIndex" /\ last.how = "returned") =>
           last.value = IndexOf(A, last.key)
    /\ (last.op = "bucketSize" /\ last.how = "returned") =>
           last.value = Cardinality(StoredAt(A, IndexOf(A, last.key)))

\* bucketSize has returned 2 on a table of three entries in two buckets
C24_Witness ==
    /\ last.op = "bucketSize" /\ last.how = "returned" /\ last.value = 2
    /\ size(A) = 3
    /\ Cardinality(Representatives(A)) = 2

\* the arrays of free store h that are allocated
Allocated(h) == {a \in Addrs : h[a] # Freed}

\* the allocated arrays after the events from the i-th on, or Fault when an
\* event breaks the discipline: new of an allocated array, a read of a
\* released one, delete[] of an array that is released already or that an
\* object of the caller points to
Fault == {nullptr}
RECURSIVE Replay(_, _, _)
Replay(allocated, events, i) ==
    IF i > Len(events) \/ allocated = Fault THEN allocated
    ELSE LET e == events[i]
         IN  Replay(CASE e.ev = "new" ->
                             IF e.addr \in allocated THEN Fault
                             ELSE allocated \cup {e.addr}
                      [] e.ev = "read" ->
                             IF e.addr \in allocated THEN allocated ELSE Fault
                      [] e.ev = "delete" ->
                             IF e.addr = nullptr THEN allocated
                             ELSE IF e.addr \notin allocated \/ e.addr \in e.held THEN Fault
                             ELSE allocated \ {e.addr},
                    events, i + 1)

\* the events of a call keep the discipline and end with the arrays of the
\* free store after the call
Disciplined(events) == Replay(Allocated(heap), events, 1) = Allocated(heap')

\* in a resize of t the old array is read before it is released, and it is
\* released when t points to the new array
ReleasedAfterRehash(events, t) ==
    \A i \in 1 .. Len(events) :
        (events[i].ev = "delete" /\ events[i].addr # nullptr) =>
            /\ events[i].addr = objs[t].hashTable
            /\ objs'[t].hashTable \in events[i].held
            /\ objs'[t].hashTable # objs[t].hashTable
            /\ \E j \in 1 .. (i - 1) :
                   events[j].ev = "read" /\ events[j].addr = events[i].addr

\* every allocated array is the array of exactly one object, and every
\* object with an array points to an allocated one
OwnedOnce(os, h) ==
    /\ Held(os) = Allocated(h)
    /\ \A t \in Tables, u \in Tables :
           (t # u /\ os[t].hashTable # nullptr) => os[t].hashTable # os[u].hashTable

\* C25: across construction, copy, move, assignment, insert, erase and
\* destruction every bucket array is released once and never while a usable
\* table points to it, no two live tables share an array, and a resize
\* releases the old array after the rehash loop has read it and the table
\* points to the new one.
C25_ArraysReleasedOnce ==
    [][/\ OwnedOnce(objs', heap')
       /\ \A t \in Tables :
              /\ \A key \in PairKeys :
                     /\ OwnInsert(t, key) =>
                            LET events == WrittenEvents(objs, t, heap,
                                              insert(maps[t], key, OwnValue(key)).map)
                            IN  Disciplined(events) /\ ReleasedAfterRehash(events, t)
                     /\ OwnErase(t, key) =>
                            LET events == WrittenEvents(objs, t, heap, erase(maps[t], key).map)
                            IN  Disciplined(events) /\ ReleasedAfterRehash(events, t)
              /\ OwnDestroy(t) => Disciplined(DestroyEvents(objs, t))
              /\ OwnDefaultConstruct(t) => Disciplined(DefaultConstructEvents(objs, heap))
              /\ \A src \in Tables :
                     /\ LifeCopyAssign(t, src) =>
                            Disciplined(CopyAssignEvents(objs, t, src, heap))
                     /\ LifeMoveAssign(t, src) =>
                            Disciplined(MoveAssignEvents(objs, t, src, heap))
                     /\ OwnCopyConstruct(t, src) =>
                            Disciplined(CopyConstructEvents(objs, src, heap))
                     /\ OwnMoveConstruct(t, src) => heap' = heap]_vars

\* an insert has grown table a from capacity 1 into a new array, the only
\* array allocated, after the lifetime of object b has ended
C25_Witness ==
    /\ last.op = "insert" /\ last.tbl = "a"
    /\ objs["a"].capacity = 2 /\ objs["a"].nElements = 1
    /\ objs["b"] = NoObject
    /\ Cardinality(Allocated(heap)) = 1

\* the (key, value) pairs in the buckets of m
StoredPairs(m) == {PairAtPlace(m, p) : p \in Places(m)}

\* C26: operator== is symmetric on reachable tables: a == b is b == a, and
\* a == b holds exactly when both tables hold the same set of (key, value)
\* pairs.
C26_EqualsSymmetric ==
    /\ Equals(maps["a"], maps["b"]) = Equals(maps["b"], maps["a"])
    /\ Equals(maps["a"], maps["b"]) <=> StoredPairs(maps["a"]) = StoredPairs(maps["b"])
    /\ last.op = "equals" =>
           /\ last.ret = Equals(maps[Other(last.tbl)], maps[last.tbl])
           /\ last.ret <=> StoredPairs(maps["a"]) = StoredPairs(maps["b"])

\* a comparison of two tables of one entry each, under different keys, has
\* returned false: the probe of the left operand did not find the key
C26_Witness ==
    /\ last.op = "equals" /\ ~last.ret
    /\ size(maps["a"]) = 1 /\ size(maps["b"]) = 1
    /\ {p[1] : p \in StoredPairs(maps["a"])} # {p[1] : p \in StoredPairs(maps["b"])}

====
